---------------------------- MODULE Spec2Model ----------------------------
(***************************************************************************)
(* Work-hour calculator: the results route's loader (holiday adjustment,   *)
(* per-day classification, monthly aggregation).                           *)
(*                                                                         *)
(* A Date is the record [year, month, date] of its local calendar fields   *)
(* (month is the JavaScript month index 0..11); all dates are local        *)
(* midnights, so date-fns' day differences are differences of day numbers. *)
(* A JavaScript array is a sequence; index i of the source is position     *)
(* i + 1 here.                                                             *)
(***************************************************************************)
EXTENDS Integers, Sequences, FiniteSets, TLC

(***************************************************************************)
(* Bounds of the model.                                                    *)
(***************************************************************************)
\* Vacation and sick ranges start and end at most MaxOffset days after an
\* anchor date.
MaxOffset == 2

\* The target years and the years the computation may run in: a common year
\* followed by a leap year.
Years == {2023, 2024}

\* Anchor dates <<month index, day of month>>: 5 January (a Thursday in
\* 2023, a Friday in 2024), the end of February, and 29 December (a Friday
\* in 2023, a Sunday in 2024).
Anchors == {<<0, 5>>, <<1, 27>>, <<11, 29>>}

\* The anchors at which ranges dated in another year than the target year
\* are drawn.
OtherYearAnchors == {<<11, 29>>}

\* An optional boolean of the search parameters is true, false or undefined.
true == "true"
false == "false"
undefined == "undefined"
OptionalBoolean == {true, false, undefined}

\* if (value): of the values of an optional boolean only true is truthy.
truthy(value) == value = true

\* The policy inputs the loader is run with: the form's defaults, and
\* nothing set in another subdivision.
PolicyChoices ==
  {[subdivision |-> "DE-BY", protestantCommunity |-> true,
    offOnChristmasEve |-> true, offOnNewYearsEve |-> true],
   [subdivision |-> "DE-BE", protestantCommunity |-> false,
    offOnChristmasEve |-> false, offOnNewYearsEve |-> false]}

\* The names the holiday service gives its holidays.
HolidayNames == {"Mariä Himmelfahrt"}

(***************************************************************************)
(* WorkDayType, and the value read from an array position never written.   *)
(***************************************************************************)
WORKDAY == "WORKDAY"
WEEKEND == "WEEKEND"
HOLIDAY == "HOLIDAY"
VACATION == "VACATION"
SICK == "SICK"
WorkDayType == {WORKDAY, WEEKEND, HOLIDAY, VACATION, SICK}
Hole == "<empty>"

(***************************************************************************)
(* Calendar: JavaScript Date and the date-fns functions the loader uses.   *)
(***************************************************************************)
Max(a, b) == IF a >= b THEN a ELSE b
Min(a, b) == IF a <= b THEN a ELSE b

isLeapYear(y) == (y % 4 = 0 /\ y % 100 # 0) \/ y % 400 = 0

\* getDaysInMonth of a date in month index m of year y.
getDaysInMonth(y, m) ==
  CASE m = 1 -> IF isLeapYear(y) THEN 29 ELSE 28
    [] m \in {3, 5, 8, 10} -> 30
    [] OTHER -> 31

RECURSIVE daysBeforeMonth(_, _)
daysBeforeMonth(y, m) ==
  IF m = 0 THEN 0 ELSE daysBeforeMonth(y, m - 1) + getDaysInMonth(y, m - 1)

\* Days from 1 January of year 1 to 1 January of year y.
daysBeforeYear(y) ==
  365 * (y - 1) + ((y - 1) \div 4) - ((y - 1) \div 100) + ((y - 1) \div 400)

\* The day number of new Date(y, m, d); d may exceed the month's length, as
\* in new Date(year, 0, index + 1).
dayNumber(y, m, d) == daysBeforeYear(y) + daysBeforeMonth(y, m) + d

\* new Date(y, m, d) with the day of month carried into later months/years.
RECURSIVE newDate(_, _, _)
newDate(y, m, d) ==
  IF d <= getDaysInMonth(y, m) THEN [year |-> y, month |-> m, date |-> d]
  ELSE IF m = 11 THEN newDate(y + 1, 0, d - getDaysInMonth(y, m))
  ELSE newDate(y, m + 1, d - getDaysInMonth(y, m))

startOfYear(date) == [year |-> date.year, month |-> 0, date |-> 1]

endOfYear(date) == [year |-> date.year, month |-> 11, date |-> 31]

differenceInDays(a, b) ==
  dayNumber(a.year, a.month, a.date) - dayNumber(b.year, b.month, b.date)

\* Date.getDay of the day with this day number: 0 is Sunday, 6 is Saturday
\* (1 January of year 1 is a Monday).
getDay(n) == n % 7

\* isWeekend(new Date(y, m, d))
isWeekend(y, m, d) == getDay(dayNumber(y, m, d)) \in {0, 6}

getDayIndex(date) == differenceInDays(date, startOfYear(date))

(***************************************************************************)
(* JavaScript array writes: a write at or past the length grows the array. *)
(***************************************************************************)
\* A run of n array positions holding v.
repeat(n, v) == [k \in 1..n |-> v]

\* for (let i = s; i <= e; i++) days[i] = type
\* (positions between the old length and s stay unwritten)
\* for (i = s; i <= e; i++) days.push(type)
fillDaysPushing(days, s, e, type) ==
  IF s > e THEN days ELSE days \o repeat(e - s + 1, type)

fillDays(days, s, e, type) ==
  IF s > e THEN days
  ELSE SubSeq(days, 1, Min(s, Len(days)))
       \o repeat(Max(s - Len(days), 0), Hole)
       \o repeat(e - s + 1, type)
       \o SubSeq(days, e + 2, Len(days))

\* days.slice(from, to)
slice(days, from, to) == SubSeq(days, Min(from, Len(days)) + 1, Min(to, Len(days)))

(***************************************************************************)
(* The loader, step by step.                                               *)
(***************************************************************************)
\* holidays.filter(holiday => holiday.name === 'Mariä Himmelfahrt')
RECURSIVE filterHolidaysInverted(_)
filterHolidaysInverted(hs) ==
  IF hs = << >> THEN << >>
  ELSE IF Head(hs).name = "Mariä Himmelfahrt"
       THEN <<Head(hs)>> \o filterHolidaysInverted(Tail(hs))
       ELSE filterHolidaysInverted(Tail(hs))

\* holidays.filter(holiday => holiday.name !== 'Mariä Himmelfahrt')
RECURSIVE filterHolidays(_)
filterHolidays(hs) ==
  IF hs = << >> THEN << >>
  ELSE IF Head(hs).name # "Mariä Himmelfahrt"
       THEN <<Head(hs)>> \o filterHolidays(Tail(hs))
       ELSE filterHolidays(Tail(hs))

\* The holiday list after the removal and the two pushes.
adjustHolidays(hs, y, sub, protestant, christmasEve, newYearsEve) ==
  LET removed == IF sub = "DE-BY" /\ protestant = true
                 THEN filterHolidays(hs) ELSE hs
      withChristmasEve ==
        IF truthy(christmasEve)
        THEN Append(removed, [name |-> "Christmas Eve", date |-> newDate(y, 11, 24)])
        ELSE removed
  IN  IF truthy(newYearsEve)
      THEN Append(withChristmasEve,
                  [name |-> "New Years Eve", date |-> newDate(y, 11, 31)])
      ELSE withChristmasEve

\* differenceInDays(endOfYear(yearStart), yearStart) + 1; endOfYear is the
\* last millisecond of 31 December, so the difference counts whole days.
daysInYear(y) ==
  LET yearStart == startOfYear(newDate(y, 0, 1))
  IN  differenceInDays(endOfYear(yearStart), yearStart) + 1

\* Variant of markRanges: the loop stops before the end day (i < index(r.end)).
RECURSIVE markRangesEndExclusive(_, _, _)
markRangesEndExclusive(days, ranges, type) ==
  IF ranges = << >> THEN days
  ELSE markRangesEndExclusive(fillDays(days, getDayIndex(Head(ranges).start),
                                       getDayIndex(Head(ranges).end) - 1, type),
                              Tail(ranges), type)

\* ranges.forEach(r => { for (i = index(r.start); i <= index(r.end); i++) days[i] = type })
RECURSIVE markRanges(_, _, _)
markRanges(days, ranges, type) ==
  IF ranges = << >> THEN days
  ELSE markRanges(fillDays(days, getDayIndex(Head(ranges).start),
                           getDayIndex(Head(ranges).end), type),
                  Tail(ranges), type)

\* Variant of markHolidays: a holiday does not overwrite a vacation or sick day.
RECURSIVE markHolidaysKeepLeave(_, _)
markHolidaysKeepLeave(days, hs) ==
  IF hs = << >> THEN days
  ELSE LET i == getDayIndex(Head(hs).date)
       IN  IF i < Len(days) /\ days[i + 1] \in {VACATION, SICK}
           THEN markHolidaysKeepLeave(days, Tail(hs))
           ELSE markHolidaysKeepLeave(fillDays(days, i, i, HOLIDAY), Tail(hs))

\* holidays.forEach(holiday => { days[getDayIndex(holiday.date)] = HOLIDAY })
RECURSIVE markHolidays(_, _)
markHolidays(days, hs) ==
  IF hs = << >> THEN days
  ELSE LET i == getDayIndex(Head(hs).date)
       IN  markHolidays(fillDays(days, i, i, HOLIDAY), Tail(hs))

\* Variant of markWeekends: a weekend does not overwrite a holiday.
markWeekendsKeepHolidays(days, y) ==
  LET marked == [k \in 1..Len(days) |->
                   IF days[k] \notin {Hole, HOLIDAY} /\ isWeekend(y, 0, k)
                   THEN WEEKEND ELSE days[k]]
  IN  SubSeq(marked, 1, Len(days))

\* days.forEach((_, index) => { if (isWeekend(new Date(year, 0, index + 1))) ... });
\* forEach skips positions never written.
markWeekends(days, y) ==
  LET marked == [k \in 1..Len(days) |->
                   IF days[k] # Hole /\ isWeekend(y, 0, k) THEN WEEKEND ELSE days[k]]
  IN  SubSeq(marked, 1, Len(days))

\* The per-day array of the loader.
classify(y, hs, vacation, sick) ==
  LET initial == repeat(daysInYear(y), WORKDAY) \o << >>
      v == markRanges(initial, vacation, VACATION)
      s == markRanges(v, sick, SICK)
      h == markHolidays(s, hs)
  IN  markWeekends(h, y)

(***************************************************************************)
(* Monthly aggregation.                                                    *)
(***************************************************************************)
\* daysPerMonth[monthIndex]: monthStart is taken in the year the code runs
\* in (new Date().getFullYear()), cur.
monthSlice(days, cur, monthIndex) ==
  LET monthStart == newDate(cur, monthIndex, 1)
      daysInMonth == getDaysInMonth(monthStart.year, monthStart.month)
  IN  [daysInMonth |-> daysInMonth,
       monthDays |-> slice(days, getDayIndex(monthStart),
                           getDayIndex(monthStart) + daysInMonth)]

daysPerMonthOf(ds, cur) ==
  [m \in 1..12 |-> monthSlice(ds, cur, m - 1)]

\* `${day}.${monthIndex + 1}`
dayMonthString(day, monthIndex) ==
  ToString(day) \o "." \o ToString(monthIndex + 1)

\* Variant of closedRange: the end is the day the scan is at (i + 1).
closedRangeThroughCurrent(startIndex, i, monthIndex) ==
  [start |-> dayMonthString(startIndex + 1, monthIndex),
   end |-> dayMonthString(i + 1, monthIndex)]

\* A range pushed while the scan is at index i (or at the end, i = length).
closedRange(startIndex, i, monthIndex) ==
  [start |-> dayMonthString(startIndex + 1, monthIndex),
   end |-> dayMonthString(i, monthIndex)]

scanStart ==
  [vacationRanges |-> << >>, sickRanges |-> << >>,
   nVacationDays |-> 0, nSickDays |-> 0,
   currentVacationStart |-> -1, currentSickStart |-> -1]

\* One iteration of the for loop over month.monthDays, at index i.
scanDay(acc, status, i, monthIndex) ==
  CASE status = VACATION ->
         [acc EXCEPT
            !.nVacationDays = @ + 1,
            !.currentVacationStart = IF @ = -1 THEN i ELSE @,
            !.sickRanges = IF acc.currentSickStart # -1
                           THEN Append(@, closedRange(acc.currentSickStart, i, monthIndex))
                           ELSE @,
            !.currentSickStart = -1]
    [] status = SICK ->
         [acc EXCEPT
            !.nSickDays = @ + 1,
            !.currentSickStart = IF @ = -1 THEN i ELSE @,
            !.vacationRanges = IF acc.currentVacationStart # -1
                               THEN Append(@, closedRange(acc.currentVacationStart, i, monthIndex))
                               ELSE @,
            !.currentVacationStart = -1]
    [] status = WORKDAY ->
         [acc EXCEPT
            !.vacationRanges = IF acc.currentVacationStart # -1
                               THEN Append(@, closedRange(acc.currentVacationStart, i, monthIndex))
                               ELSE @,
            !.currentVacationStart = -1,
            !.sickRanges = IF acc.currentSickStart # -1
                           THEN Append(@, closedRange(acc.currentSickStart, i, monthIndex))
                           ELSE @,
            !.currentSickStart = -1]
    [] OTHER -> acc

RECURSIVE scanDays(_, _, _, _)
scanDays(acc, monthDays, i, monthIndex) ==
  IF i >= Len(monthDays) THEN acc
  ELSE scanDays(scanDay(acc, monthDays[i + 1], i, monthIndex),
                monthDays, i + 1, monthIndex)

\* No push after the loop: a range still open at the end is lost.
closeAtEndDropping(acc, monthDays, monthIndex) == acc

\* The two pushes after the loop, for ranges still open at the end.
closeAtEnd(acc, monthDays, monthIndex) ==
  [acc EXCEPT
     !.vacationRanges = IF acc.currentVacationStart # -1
                        THEN Append(@, closedRange(acc.currentVacationStart,
                                                   Len(monthDays), monthIndex))
                        ELSE @,
     !.sickRanges = IF acc.currentSickStart # -1
                    THEN Append(@, closedRange(acc.currentSickStart,
                                               Len(monthDays), monthIndex))
                    ELSE @]

\* month.monthDays.filter(day => day === type).length
countDays(monthDays, type) ==
  Cardinality({k \in 1..Len(monthDays) : monthDays[k] = type})

monthSummary(month, monthIndex) ==
  LET acc == closeAtEnd(scanDays(scanStart, month.monthDays, 0, monthIndex),
                        month.monthDays, monthIndex)
  IN  [daysInMonth |-> month.daysInMonth,
       workDays |-> countDays(month.monthDays, WORKDAY),
       vacationDays |-> acc.nVacationDays,
       sickDays |-> acc.nSickDays,
       vacationRanges |-> acc.vacationRanges,
       sickRanges |-> acc.sickRanges]

workdaysPerMonthOf(months) ==
  [m \in 1..12 |-> monthSummary(months[m], m - 1)]

(***************************************************************************)
(* The date range parser (dateUtils).  A string is the sequence of its     *)
(* characters.  A call either returns a value or throws a DateParseError:  *)
(* its outcome is a record [threw, code, fieldValue, value], where         *)
(* fieldValue is << >> for undefined and <<s>> for the string s.           *)
(***************************************************************************)
EMPTY_DATE_STRING == "EMPTY_DATE_STRING"
EMPTY_RANGE_AFTER_SEMICOLON == "EMPTY_RANGE_AFTER_SEMICOLON"
DATE_FORMAT_INVALID == "DATE_FORMAT_INVALID"
RANGE_END_BEFORE_START == "RANGE_END_BEFORE_START"
DATE_PARSE_FAILED == "DATE_PARSE_FAILED"
RANGE_MISSING_DATE == "RANGE_MISSING_DATE"

\* throw new DateParseError(code, detail, fieldValue)
Thrown(code, fieldValue) ==
  [threw |-> TRUE, code |-> code, fieldValue |-> fieldValue, value |-> << >>]

\* return value
Returned(value) ==
  [threw |-> FALSE, code |-> "", fieldValue |-> << >>, value |-> value]

DigitChars == <<"0", "1", "2", "3", "4", "5", "6", "7", "8", "9">>

isDigit(c) == \E n \in 1..10 : DigitChars[n] = c

digitValue(c) == (CHOOSE n \in 1..10 : DigitChars[n] = c) - 1

isWhitespace(c) == c = " "

\* String.prototype.trim
RECURSIVE trimStart(_)
trimStart(s) ==
  IF s # << >> /\ isWhitespace(Head(s)) THEN trimStart(Tail(s)) ELSE s

RECURSIVE trimEnd(_)
trimEnd(s) ==
  IF s # << >> /\ isWhitespace(s[Len(s)])
  THEN trimEnd(SubSeq(s, 1, Len(s) - 1)) ELSE s

trim(s) == trimEnd(trimStart(s))

\* String.prototype.includes, for a separator of one character
includes(s, c) == \E k \in 1..Len(s) : s[k] = c

\* String.prototype.split, for a separator of one character: the pieces
\* between the separators, empty pieces included.
RECURSIVE split(_, _)
split(s, c) ==
  IF ~includes(s, c) THEN <<s>>
  ELSE LET k == CHOOSE i \in 1..Len(s) :
                  s[i] = c /\ \A j \in 1..(i - 1) : s[j] # c
       IN  <<SubSeq(s, 1, k - 1)>> \o split(SubSeq(s, k + 1, Len(s)), c)

\* The pieces as they are, untrimmed.
mapNoTrim(parts) == parts

\* Array.prototype.map(part => part.trim())
mapTrim(parts) == [k \in 1..Len(parts) |-> trim(parts[k])]

\* date-fns parse reads the tokens dd and MM with /^\d{1,2}/: the number of
\* characters the pattern takes from the front of s (0: no match).
takeDigits(s) ==
  IF Len(s) >= 1 /\ isDigit(s[1])
  THEN IF Len(s) >= 2 /\ isDigit(s[2]) THEN 2 ELSE 1
  ELSE 0

\* The number that one or two digits write.
numberOf(ds) ==
  IF Len(ds) = 1 THEN digitValue(ds[1])
  ELSE 10 * digitValue(ds[1]) + digitValue(ds[2])

InvalidDate == [valid |-> FALSE, date |-> [year |-> 0, month |-> 0, date |-> 0]]

\* A parse that does not validate the day of the month: the Date
\* constructor carries a day past the end of the month into the next one.
dateFnsParseUnvalidatedDay(s, dayFirst, y) ==
  LET n1 == takeDigits(s)
      rest1 == SubSeq(s, n1 + 1, Len(s))
      rest2 == SubSeq(rest1, 2, Len(rest1))
      n2 == takeDigits(rest2)
      rest3 == SubSeq(rest2, n2 + 1, Len(rest2))
  IN  IF n1 = 0 \/ rest1 = << >> \/ rest1[1] # "." \/ n2 = 0
         \/ \E k \in 1..Len(rest3) : ~isWhitespace(rest3[k])
      THEN InvalidDate
      ELSE LET v1 == numberOf(SubSeq(s, 1, n1))
               v2 == numberOf(SubSeq(rest2, 1, n2))
               day == IF dayFirst THEN v1 ELSE v2
               month == IF dayFirst THEN v2 ELSE v1
           IN  IF month \in 1..12 /\ day >= 1
               THEN [valid |-> TRUE, date |-> newDate(y, month - 1, day)]
               ELSE InvalidDate

\* parse(dateString, "dd.MM" | "MM.dd", new Date(year, 0, 1)) of date-fns:
\* two numbers of one or two digits around a '.', nothing but whitespace
\* after them; the month is validated (1..12) and set first, then the day
\* of the month against the length of that month in the reference year.
dateFnsParse(s, dayFirst, y) ==
  LET n1 == takeDigits(s)
      rest1 == SubSeq(s, n1 + 1, Len(s))
      rest2 == SubSeq(rest1, 2, Len(rest1))
      n2 == takeDigits(rest2)
      rest3 == SubSeq(rest2, n2 + 1, Len(rest2))
  IN  IF n1 = 0 \/ rest1 = << >> \/ rest1[1] # "." \/ n2 = 0
         \/ \E k \in 1..Len(rest3) : ~isWhitespace(rest3[k])
      THEN InvalidDate
      ELSE LET v1 == numberOf(SubSeq(s, 1, n1))
               v2 == numberOf(SubSeq(rest2, 1, n2))
               day == IF dayFirst THEN v1 ELSE v2
               month == IF dayFirst THEN v2 ELSE v1
           IN  IF month \in 1..12 /\ day >= 1
                  /\ day <= getDaysInMonth(y, month - 1)
               THEN [valid |-> TRUE, date |-> newDate(y, month - 1, day)]
               ELSE InvalidDate

\* parseDateString with the formats in the order "MM.dd", "dd.MM".
parseDateStringMonthFirst(dateString, y) ==
  IF trim(dateString) = << >> THEN Thrown(EMPTY_DATE_STRING, <<dateString>>)
  ELSE IF dateFnsParse(dateString, FALSE, y).valid
       THEN Returned(<<dateFnsParse(dateString, FALSE, y).date>>)
       ELSE IF dateFnsParse(dateString, TRUE, y).valid
            THEN Returned(<<dateFnsParse(dateString, TRUE, y).date>>)
            ELSE Thrown(DATE_FORMAT_INVALID, <<dateString>>)

\* parseDateString: the formats "dd.MM" and "MM.dd", in this order.
parseDateString(dateString, y) ==
  IF trim(dateString) = << >> THEN Thrown(EMPTY_DATE_STRING, <<dateString>>)
  ELSE IF dateFnsParse(dateString, TRUE, y).valid
       THEN Returned(<<dateFnsParse(dateString, TRUE, y).date>>)
       ELSE IF dateFnsParse(dateString, FALSE, y).valid
            THEN Returned(<<dateFnsParse(dateString, FALSE, y).date>>)
            ELSE Thrown(DATE_FORMAT_INVALID, <<dateString>>)

\* Date.prototype.getTime, in days: all dates are local midnights.
getTime(date) == dayNumber(date.year, date.month, date.date)

\* endDate <= startDate
endNotAfterStart(startDate, endDate) == getTime(endDate) <= getTime(startDate)

\* endDate < startDate
endBeforeStart(startDate, endDate) == getTime(endDate) < getTime(startDate)

\* The range branch, carrying the start side when a side is missing.
parseRangePartCarryingStart(part, y) ==
  LET sides == mapTrim(split(part, "-"))
      start == sides[1]
      end == sides[2]
  IN  IF start = << >> \/ end = << >> THEN Thrown(RANGE_MISSING_DATE, <<start>>)
      ELSE LET startDate == parseDateString(start, y)
               endDate == parseDateString(end, y)
           IN  IF startDate.threw THEN startDate
               ELSE IF endDate.threw THEN endDate
               ELSE IF endBeforeStart(startDate.value[1], endDate.value[1])
                    THEN Thrown(RANGE_END_BEFORE_START, <<part>>)
                    ELSE Returned(<<[start |-> startDate.value[1],
                                     end |-> endDate.value[1]]>>)

\* The branch of parseDateOrRangeString for a part that includes '-':
\* const [start, end] = part.split("-").map(p => p.trim()) takes the first
\* two pieces.
parseRangePart(part, y) ==
  LET sides == mapTrim(split(part, "-"))
      start == sides[1]
      end == sides[2]
  IN  IF start = << >> \/ end = << >> THEN Thrown(RANGE_MISSING_DATE, <<part>>)
      ELSE LET startDate == parseDateString(start, y)
               endDate == parseDateString(end, y)
           IN  IF startDate.threw THEN startDate
               ELSE IF endDate.threw THEN endDate
               ELSE IF endBeforeStart(startDate.value[1], endDate.value[1])
                    THEN Thrown(RANGE_END_BEFORE_START, <<part>>)
                    ELSE Returned(<<[start |-> startDate.value[1],
                                     end |-> endDate.value[1]]>>)

\* The branch for a part without '-'.
parseSinglePart(part, y) ==
  LET date == parseDateString(part, y)
  IN  IF date.threw THEN date
      ELSE Returned(<<[start |-> date.value[1], end |-> date.value[1]]>>)

\* One pass of the loop body that skips an empty part.
parsePartSkippingEmpty(part, y) ==
  IF part = << >> THEN Returned(<< >>)
  ELSE IF includes(part, "-") THEN parseRangePart(part, y)
       ELSE parseSinglePart(part, y)

\* One pass of the loop body of parseDateOrRangeString: the ranges it
\* pushes, or the error it throws.
parsePart(part, y) ==
  IF part = << >> THEN Thrown(EMPTY_RANGE_AFTER_SEMICOLON, << >>)
  ELSE IF includes(part, "-") THEN parseRangePart(part, y)
       ELSE parseSinglePart(part, y)

\* for (const part of parts): the loop from part k on, with the ranges
\* pushed so far; a throw leaves the function without them.
RECURSIVE parseParts(_, _, _, _)
parseParts(parts, k, ranges, y) ==
  IF k > Len(parts) THEN Returned(ranges)
  ELSE LET pushed == parsePart(parts[k], y)
       IN  IF pushed.threw THEN pushed
           ELSE parseParts(parts, k + 1, ranges \o pushed.value, y)

\* parseDateOrRangeString without its first check.
parseDateOrRangeStringUnchecked(input, y) ==
  parseParts(mapTrim(split(input, ";")), 1, << >>, y)

parseDateOrRangeString(input, y) ==
  IF trim(input) = << >> THEN Thrown(EMPTY_DATE_STRING, << >>)
  ELSE parseParts(mapTrim(split(input, ";")), 1, << >>, y)

\* One pass of the loop body of parseDateRangeString: as in
\* parseDateOrRangeString, but a date that parseDateString returned as null
\* would be skipped (if (startDate && endDate), if (date)) instead of
\* thrown for.
rangeStringPart(part, y) ==
  IF part = << >> THEN Thrown(EMPTY_RANGE_AFTER_SEMICOLON, << >>)
  ELSE IF includes(part, "-")
  THEN LET sides == mapTrim(split(part, "-"))
           start == sides[1]
           end == sides[2]
       IN  IF start = << >> \/ end = << >> THEN Thrown(RANGE_MISSING_DATE, <<part>>)
           ELSE LET startDate == parseDateString(start, y)
                    endDate == parseDateString(end, y)
                IN  IF startDate.threw THEN startDate
                    ELSE IF endDate.threw THEN endDate
                    ELSE IF startDate.value # << >> /\ endDate.value # << >>
                         THEN IF endBeforeStart(startDate.value[1], endDate.value[1])
                              THEN Thrown(RANGE_END_BEFORE_START, <<part>>)
                              ELSE Returned(<<[start |-> startDate.value[1],
                                               end |-> endDate.value[1]]>>)
                         ELSE Returned(<< >>)
  ELSE LET date == parseDateString(part, y)
       IN  IF date.threw THEN date
           ELSE IF date.value # << >>
                THEN Returned(<<[start |-> date.value[1], end |-> date.value[1]]>>)
                ELSE Returned(<< >>)

RECURSIVE rangeStringParts(_, _, _, _)
rangeStringParts(parts, k, ranges, y) ==
  IF k > Len(parts) THEN Returned(ranges)
  ELSE LET pushed == rangeStringPart(parts[k], y)
       IN  IF pushed.threw THEN pushed
           ELSE rangeStringParts(parts, k + 1, ranges \o pushed.value, y)

\* parseDateRangeString returning no ranges for a blank input.
parseDateRangeStringBlankAsNone(input, y) ==
  IF trim(input) = << >> THEN Returned(<< >>)
  ELSE rangeStringParts(mapTrim(split(input, ";")), 1, << >>, y)

parseDateRangeString(input, y) ==
  IF trim(input) = << >> THEN Thrown(EMPTY_DATE_STRING, << >>)
  ELSE rangeStringParts(mapTrim(split(input, ";")), 1, << >>, y)

\* format(date, "dd.MM") of date-fns: two digits each.
pad2(n) == <<DigitChars[(n \div 10) + 1], DigitChars[(n % 10) + 1]>>

\* format(date, "MM.dd")
formatMonthFirst(date) == pad2(date.month + 1) \o <<".">> \o pad2(date.date)

\* format(date, "dd.MM")
formatDayFirst(date) == pad2(date.date) \o <<".">> \o pad2(date.month + 1)

formatDateRange(range) ==
  IF getTime(range.start) = getTime(range.end) THEN formatDayFirst(range.start)
  ELSE formatDayFirst(range.start) \o <<"-">> \o formatDayFirst(range.end)

(***************************************************************************)
(* State: the loader's dependencies (the validated search parameters), the *)
(* environment (the holiday service's answer, the year of the clock) and   *)
(* what the loader returned.                                               *)
(***************************************************************************)
VARIABLES
  year,                 \* deps.year
  subdivision,          \* deps.subdivision
  protestantCommunity,  \* deps.protestantCommunity
  offOnChristmasEve,    \* deps.offOnChristmasEve
  offOnNewYearsEve,     \* deps.offOnNewYearsEve
  hasVacationDates,     \* FALSE: deps.vacationDates is undefined
  vacationDates,        \* deps.vacationDates
  sickDates,            \* deps.sickDates (<< >> also stands for undefined)
  fetched,              \* what fetchHolidaysByYear(year, subdivision) resolves to
  currentYear,          \* new Date().getFullYear() while the loader runs
  pc,                   \* "start" | "loaded"
  returned,             \* the keys of the object the loader returned
  holidays,             \* the adjusted holiday list
  days,                 \* the per-day array
  daysPerMonth,         \* the month slices: daysInMonth and monthDays
  workdaysPerMonth,     \* the monthly summaries
  typed,                \* the entries typed, and whether blanks surround them
  input,                \* the string handed to the parser
  formatted,            \* <<r>>: input is formatDateRange(r); << >> otherwise
  result,               \* the outcome of parsing input
  response,             \* how the holiday service answers the request
  rejection,            \* << >>, or <<message>> of the error fetchHolidaysByYear rejects with
  form,                 \* the values of the form's fields
  rawVacationDatesInputValue,  \* the text of the vacation input
  rawSickDatesInputValue,      \* the text of the sick input
  errors,               \* the form fields that have an error set
  submitted,            \* << >>, or <<data>> handed to onSubmit
  subdivisions,         \* the subdivision list shown: the country it is of
  isLoading,            \* the loading flag of the subdivision field
  lookups,              \* the subdivision lookups in flight
  addClicks             \* the number of clicks on the two Add buttons, modulo 2

vars == <<year, subdivision, protestantCommunity, offOnChristmasEve,
          offOnNewYearsEve, hasVacationDates, vacationDates, sickDates,
          fetched, currentYear, pc, returned, holidays, days, daysPerMonth,
          workdaysPerMonth, typed, input, formatted, result, response,
          rejection, form, rawVacationDatesInputValue, rawSickDatesInputValue,
          errors, submitted, subdivisions, isLoading, lookups, addClicks>>

loaderVars == <<subdivision, protestantCommunity, offOnChristmasEve,
                offOnNewYearsEve, hasVacationDates, vacationDates, sickDates,
                fetched, currentYear, returned, holidays, days, daysPerMonth,
                workdaysPerMonth>>

parserVars == <<typed, input, formatted, result>>

fetchVars == <<response, rejection>>

formVars == <<form, rawVacationDatesInputValue, rawSickDatesInputValue, errors,
              submitted, subdivisions, isLoading, lookups, addClicks>>

\* useForm's defaultValues; no default is given for the subdivision.
FormDefaults(clock) ==
  [country |-> "DE", subdivision |-> undefined, year |-> clock,
   offOnChristmasEve |-> true, offOnNewYearsEve |-> true,
   protestantCommunity |-> true, vacationDates |-> << >>, sickDates |-> << >>]

\* The form as it is constructed, before its first effect runs.
FormIdle ==
  /\ form = FormDefaults(currentYear)
  /\ rawVacationDatesInputValue = << >>
  /\ rawSickDatesInputValue = << >>
  /\ errors = {}
  /\ submitted = << >>
  /\ subdivisions = ""
  /\ isLoading = FALSE
  /\ lookups = << >>
  /\ addClicks = 0

\* The holiday service answered with no holiday; nothing was rejected.
FetchIdle ==
  /\ response = [kind |-> "ok", statusText |-> "OK", text |-> "", data |-> << >>,
                 error |-> << >>]
  /\ rejection = << >>

\* Nothing has been typed, formatted or parsed.
ParserIdle ==
  /\ typed = [entries |-> << >>, spaced |-> FALSE]
  /\ input = << >>
  /\ formatted = << >>
  /\ result = Returned(<< >>)

inputs == <<year, subdivision, protestantCommunity, offOnChristmasEve,
            offOnNewYearsEve, hasVacationDates, vacationDates, sickDates,
            fetched, currentYear>>

\* The dates 0..MaxOffset days after an anchor date of year y.
Window(y, anchor) ==
  {newDate(y, anchor[1], anchor[2] + k) : k \in 0..MaxOffset}

\* Lists of at most one range (start <= end) inside a window.
RangeLists(y, anchor) ==
  {<< >>} \cup
  {<<[start |-> newDate(y, anchor[1], anchor[2] + a),
      end |-> newDate(y, anchor[1], anchor[2] + b)]>> :
     <<a, b>> \in {ab \in (0..MaxOffset) \X (0..MaxOffset) : ab[1] <= ab[2]}}

\* Answers of the holiday service for year y: at most one holiday, dated in
\* the window.
HolidayLists(y, anchor) ==
  {<< >>} \cup
  {<<[name |-> n, date |-> d]>> : n \in HolidayNames, d \in Window(y, anchor)}

Init ==
  /\ year \in Years
  /\ currentYear \in Years
  /\ \E policy \in PolicyChoices :
       /\ subdivision = policy.subdivision
       /\ protestantCommunity = policy.protestantCommunity
       /\ offOnChristmasEve = policy.offOnChristmasEve
       /\ offOnNewYearsEve = policy.offOnNewYearsEve
  /\ hasVacationDates \in BOOLEAN
  /\ \E anchor \in Anchors, rangeYear \in Years :
       /\ rangeYear = year \/ anchor \in OtherYearAnchors
       /\ vacationDates \in RangeLists(rangeYear, anchor)
       /\ sickDates \in RangeLists(rangeYear, anchor)
       /\ fetched \in HolidayLists(year, anchor)
  /\ hasVacationDates \/ vacationDates = << >>
  /\ pc = "start"
  /\ returned = {}
  /\ holidays = << >>
  /\ days = << >>
  /\ daysPerMonth = << >>
  /\ workdaysPerMonth = << >>
  /\ ParserIdle
  /\ FormIdle
  /\ FetchIdle

\* Route.loader, from the resolved fetch to its return.
Loader ==
  /\ pc = "start"
  /\ pc' = "loaded"
  /\ holidays' = adjustHolidays(fetched, year, subdivision, protestantCommunity,
                                offOnChristmasEve, offOnNewYearsEve)
  /\ IF ~hasVacationDates
     THEN /\ returned' = {"holidays"}
          /\ UNCHANGED <<days, daysPerMonth, workdaysPerMonth>>
     ELSE /\ returned' = {"days", "workdaysPerMonth"}
          /\ days' = classify(year, holidays', vacationDates, sickDates)
          /\ daysPerMonth' = daysPerMonthOf(days', currentYear)
          /\ workdaysPerMonth' = workdaysPerMonthOf(daysPerMonth')
  /\ UNCHANGED inputs
  /\ UNCHANGED <<parserVars, fetchVars, formVars>>

Next == Loader

Spec == Init /\ [][Next]_vars

(***************************************************************************)
(* The parser and the formatter on their own: a string is typed, or a      *)
(* range is formatted, and the string is parsed for the selected year.     *)
(***************************************************************************)
\* An input has at most MaxEntries entries between its semicolons.
MaxEntries == 2

\* A date token is <<a, b>>, written "aa.bb"; << >> is a missing token.
RangeTokens == {<<24, 3>>, <<25, 3>>, <<32, 3>>, << >>}

SingleTokens ==
  {<<24, 3>>, <<25, 3>>, <<32, 3>>, <<29, 2>>, <<3, 24>>, <<3, 4>>, <<5, 13>>}

\* An entry is the sequence of its tokens, joined by '-': the empty entry, a
\* single date, two sides, or three dates.
Entries ==
  {<< >>} \cup {<<t>> : t \in SingleTokens}
  \cup {<<a, b>> : a \in RangeTokens, b \in RangeTokens}
  \cup {<<<<24, 3>>, <<25, 3>>, c>> : c \in {<<25, 3>>, <<32, 3>>}}

EntryLists == UNION {[1..n -> Entries] : n \in 1..MaxEntries}

renderToken(t) ==
  IF t = << >> THEN << >> ELSE pad2(t[1]) \o <<".">> \o pad2(t[2])

\* The tokens from the k-th on, each after a '-' (with blanks if spaced).
RECURSIVE renderSides(_, _, _)
renderSides(e, k, spaced) ==
  IF k > Len(e) THEN << >>
  ELSE (IF spaced THEN <<" ", "-", " ">> ELSE <<"-">>)
       \o renderToken(e[k]) \o renderSides(e, k + 1, spaced)

renderEntry(e, spaced) ==
  LET text == IF e = << >> THEN << >>
              ELSE renderToken(e[1]) \o renderSides(e, 2, spaced)
  IN  IF spaced THEN <<" ">> \o text \o <<" ">> ELSE text

\* The entries from the k-th on, each after a ';'.
RECURSIVE renderEntries(_, _, _)
renderEntries(es, k, spaced) ==
  IF k > Len(es) THEN << >>
  ELSE <<";">> \o renderEntry(es[k], spaced) \o renderEntries(es, k + 1, spaced)

renderInput(es, spaced) ==
  renderEntry(es[1], spaced) \o renderEntries(es, 2, spaced)

\* The ranges formatDateRange is given: start <= end, inside a window of
\* year y.
FormatRanges(y) ==
  {list[1] : list \in UNION {RangeLists(y, anchor) \ {<< >>} : anchor \in Anchors}}

\* The loader has not run and has nothing to run on.
LoaderIdle ==
  /\ subdivision = ""
  /\ protestantCommunity = undefined
  /\ offOnChristmasEve = undefined
  /\ offOnNewYearsEve = undefined
  /\ hasVacationDates = FALSE
  /\ vacationDates = << >>
  /\ sickDates = << >>
  /\ fetched = << >>
  /\ returned = {}
  /\ holidays = << >>
  /\ days = << >>
  /\ daysPerMonth = << >>
  /\ workdaysPerMonth = << >>

ParseInit ==
  /\ year \in Years
  /\ currentYear = year
  /\ LoaderIdle
  /\ pc = "start"
  /\ ParserIdle
  /\ FormIdle
  /\ FetchIdle

\* A string is typed into the text field.
TypeInput ==
  /\ pc = "start"
  /\ \E es \in EntryLists, spaced \in BOOLEAN :
       /\ typed' = [entries |-> es, spaced |-> spaced]
       /\ input' = renderInput(es, spaced)
  /\ pc' = "typed"
  /\ UNCHANGED <<year, loaderVars, formatted, result, fetchVars, formVars>>

\* A range is shown as text.
FormatRange ==
  /\ pc = "start"
  /\ \E range \in FormatRanges(year) :
       /\ formatted' = <<range>>
       /\ input' = formatDateRange(range)
  /\ pc' = "typed"
  /\ UNCHANGED <<year, loaderVars, typed, result, fetchVars, formVars>>

\* parseDateOrRangeString(input, year)
Parse ==
  /\ pc = "typed"
  /\ result' = parseDateOrRangeString(input, year)
  /\ pc' = "parsed"
  /\ UNCHANGED <<year, loaderVars, typed, input, formatted, fetchVars, formVars>>

ParseNext == TypeInput \/ FormatRange \/ Parse

ParseSpec == ParseInit /\ [][ParseNext]_vars

(***************************************************************************)
(* The loader over the policy inputs: every subdivision and flag value,    *)
(* longer answers of the holiday service, and a vacation or sick range     *)
(* listed more than once.                                                  *)
(***************************************************************************)
\* The holiday service answers with at most MaxHolidays holidays.
MaxHolidays == 2

Subdivisions == {"DE-BY", "DE-BE"}

\* The holidays the service may name in year y.
HolidayChoices(y) ==
  {[name |-> "Mariä Himmelfahrt", date |-> newDate(y, 7, 15)],
   [name |-> "Assumption Day", date |-> newDate(y, 7, 15)],
   [name |-> "Heiligabend", date |-> newDate(y, 11, 24)]}

HolidayAnswers(y) == UNION {[1..n -> HolidayChoices(y)] : n \in 0..MaxHolidays}

\* No range, or the days 23 to 27 December of year y listed once or twice.
RepeatedLists(y) ==
  LET range == [start |-> newDate(y, 11, 23), end |-> newDate(y, 11, 27)]
  IN  {<< >>, <<range>>, <<range, range>>}

PolicyInit ==
  /\ year \in Years
  /\ currentYear = year
  /\ subdivision \in Subdivisions
  /\ protestantCommunity \in OptionalBoolean
  /\ offOnChristmasEve \in OptionalBoolean
  /\ offOnNewYearsEve \in OptionalBoolean
  /\ hasVacationDates \in BOOLEAN
  /\ vacationDates \in RepeatedLists(year)
  /\ sickDates \in {list \in RepeatedLists(year) : Len(list) # 1}
  /\ hasVacationDates \/ (vacationDates = << >> /\ sickDates = << >>)
  /\ fetched \in HolidayAnswers(year)
  /\ pc = "start"
  /\ returned = {}
  /\ holidays = << >>
  /\ days = << >>
  /\ daysPerMonth = << >>
  /\ workdaysPerMonth = << >>
  /\ ParserIdle
  /\ FormIdle
  /\ FetchIdle

PolicySpec == PolicyInit /\ [][Next]_vars

(***************************************************************************)
(* fetchHolidaysByYear.  A message is the sequence of the pieces the       *)
(* template strings join.  An error value is [isError, message]: isError   *)
(* says whether it is an instance of Error.                                *)
(***************************************************************************)
NoError == [isError |-> FALSE, message |-> << >>]

\* The items of the service's JSON for a list of holidays: the date as
\* startDate, the name as the text of the first translation.
apiItems(hs) ==
  [k \in 1..Len(hs) |->
     [startDate |-> hs[k].date, name |-> <<[language |-> "DE", text |-> hs[k].name]>>]]

\* How the request may end: an ok response with holidays, an ok response
\* whose body is no JSON, a response that is not ok, or a rejected fetch.
Responses(y) ==
  {[kind |-> "ok", statusText |-> "OK", text |-> "", data |-> apiItems(hs),
    error |-> NoError] : hs \in HolidayAnswers(y)}
  \cup {[kind |-> "badJson", statusText |-> "OK", text |-> "", data |-> << >>,
         error |-> [isError |-> TRUE, message |-> <<"Unexpected end of JSON input">>]]}
  \cup {[kind |-> "notOk", statusText |-> st, text |-> tx, data |-> << >>,
         error |-> NoError] :
          st \in {"Not Found", "Internal Server Error", ""},
          tx \in {"", "quota exceeded"}}
  \cup {[kind |-> "rejected", statusText |-> "", text |-> "", data |-> << >>,
         error |-> e] :
          e \in {[isError |-> TRUE, message |-> <<"Network error">>],
                 [isError |-> TRUE, message |-> <<"Failed to fetch">>],
                 [isError |-> FALSE, message |-> <<"timeout">>]}}

\* What the try block throws: the rejection of fetch, the error for a
\* response that is not ok, or the rejection of response.json().
thrownInTry(resp) ==
  CASE resp.kind = "rejected" -> resp.error
    [] resp.kind = "notOk" ->
         [isError |-> TRUE,
          message |-> <<"Failed to fetch holidays: ", resp.statusText,
                        ". Details: ", resp.text>>]
    [] resp.kind = "badJson" -> resp.error
    [] OTHER -> NoError

\* data.map(holiday => ({ name: holiday.name[0].text, date: new Date(holiday.startDate) }))
mapHolidays(data) ==
  [k \in 1..Len(data) |-> [name |-> data[k].name[1].text, date |-> data[k].startDate]]

\* fetchHolidaysByYear that reads the body whatever response.ok is.
fetchHolidaysByYearUnchecked(resp) ==
  IF resp.kind \in {"ok", "notOk"}
  THEN [rejected |-> FALSE, message |-> << >>, value |-> mapHolidays(resp.data)]
  ELSE IF thrownInTry(resp).isError
       THEN [rejected |-> TRUE,
             message |-> <<"Error fetching holidays: ">> \o thrownInTry(resp).message,
             value |-> << >>]
       ELSE [rejected |-> TRUE,
             message |-> <<"Unknown error occurred while fetching holidays">>,
             value |-> << >>]

\* fetchHolidaysByYear, given how the request ends: the list it resolves to,
\* or the message of the error it rejects with.
fetchHolidaysByYear(resp) ==
  IF resp.kind = "ok"
  THEN [rejected |-> FALSE, message |-> << >>, value |-> mapHolidays(resp.data)]
  ELSE IF thrownInTry(resp).isError
       THEN [rejected |-> TRUE,
             message |-> <<"Error fetching holidays: ">> \o thrownInTry(resp).message,
             value |-> << >>]
       ELSE [rejected |-> TRUE,
             message |-> <<"Unknown error occurred while fetching holidays">>,
             value |-> << >>]

FetchInit ==
  /\ year \in Years
  /\ currentYear = year
  /\ subdivision \in Subdivisions
  /\ protestantCommunity = undefined
  /\ offOnChristmasEve = undefined
  /\ offOnNewYearsEve = undefined
  /\ hasVacationDates = FALSE
  /\ vacationDates = << >>
  /\ sickDates = << >>
  /\ fetched = << >>
  /\ returned = {}
  /\ holidays = << >>
  /\ days = << >>
  /\ daysPerMonth = << >>
  /\ workdaysPerMonth = << >>
  /\ pc = "start"
  /\ ParserIdle
  /\ FormIdle
  /\ response \in Responses(year)
  /\ rejection = << >>

\* await fetchHolidaysByYear(year, subdivision)
FetchHolidays ==
  /\ pc = "start"
  /\ LET outcome == fetchHolidaysByYear(response)
     IN  /\ fetched' = outcome.value
         /\ rejection' = IF outcome.rejected THEN <<outcome.message>> ELSE << >>
  /\ pc' = "fetched"
  /\ UNCHANGED <<year, subdivision, protestantCommunity, offOnChristmasEve,
                 offOnNewYearsEve, hasVacationDates, vacationDates, sickDates,
                 currentYear, returned, holidays, days, daysPerMonth,
                 workdaysPerMonth, parserVars, response, formVars>>

FetchNext == FetchHolidays

FetchSpec == FetchInit /\ [][FetchNext]_vars

(***************************************************************************)
(* The form (CountrySubdivisionSelector) and MainApp's submit handler.     *)
(***************************************************************************)
\* A vacation or sick list of the form holds at most MaxRanges ranges.
MaxRanges == 1

\* The texts typed into the vacation and the sick input: "28.02-29.02" and
\* "24.03;32.03".
FormInputs ==
  {renderInput(<<<<<<28, 2>>, <<29, 2>>>>>>, FALSE),
   renderInput(<<<<<<24, 3>>>>, <<<<32, 3>>>>>>, FALSE)}

Countries == {"DE", "AT"}

\* At most MaxLookups subdivision lookups are in flight.
MaxLookups == 2

\* The codes of the subdivisions the service lists for a country; "" is the
\* empty list.
codesOf(country) ==
  CASE country = "DE" -> {"DE-BY", "DE-BE"}
    [] country = "AT" -> {"AT-9"}
    [] OTHER -> {}

\* [...(data.vacationDates || []), ...parsedDates], unless the parser threw.
appendParsed(old, parsed) ==
  IF parsed.threw THEN parsed ELSE Returned(old \o parsed.value)

\* transformVacationDates: the new vacationDates, or the parser's error.
transformVacationDates(data) ==
  IF data.rawVacationDates = << >> THEN Returned(data.vacationDates)
  ELSE appendParsed(data.vacationDates,
                    parseDateRangeString(data.rawVacationDates, data.year))

\* The try and catch blocks of handleAddVacationDate, with a catch block
\* that sets no error.
triedVacationDatesSilent(f, raw, errs, res) ==
  IF res.threw
  THEN [form |-> f, raw |-> raw, errors |-> errs]
  ELSE [form |-> [f EXCEPT !.vacationDates = res.value],
        raw |-> << >>, errors |-> errs \ {"rawVacationDates"}]

\* The try and catch blocks of handleAddVacationDate, res being what
\* transformVacationDates returned or threw.
triedVacationDates(f, raw, errs, res) ==
  IF res.threw
  THEN [form |-> f, raw |-> raw, errors |-> errs \cup {"rawVacationDates"}]
  ELSE [form |-> [f EXCEPT !.vacationDates = res.value],
        raw |-> << >>, errors |-> errs \ {"rawVacationDates"}]

\* handleAddVacationDate: the form values, the input text and the errors
\* after the call.  The year of the form is always set.
handleAddVacationDate(f, raw, errs) ==
  IF raw = << >> THEN [form |-> f, raw |-> raw, errors |-> errs]
  ELSE triedVacationDates(f, raw, errs,
         transformVacationDates([year |-> f.year, rawVacationDates |-> raw,
                                 vacationDates |-> f.vacationDates]))

\* The try and catch blocks of handleAddSickDate, res being what
\* parseDateRangeString returned or threw.
triedSickDates(f, raw, errs, res) ==
  IF res.threw
  THEN [form |-> f, raw |-> raw, errors |-> errs \cup {"rawSickDates"}]
  ELSE [form |-> [f EXCEPT !.sickDates = @ \o res.value],
        raw |-> << >>, errors |-> errs \ {"rawSickDates"}]

\* handleAddSickDate
handleAddSickDate(f, raw, errs) ==
  IF raw = << >> THEN [form |-> f, raw |-> raw, errors |-> errs]
  ELSE triedSickDates(f, raw, errs, parseDateRangeString(raw, f.year))

\* list.filter((_, i) => i !== index), for the position index + 1
removeAt(list, k) == SubSeq(list, 1, k - 1) \o SubSeq(list, k + 1, Len(list))

\* new Date(year, date.getMonth(), date.getDate())
inYear(y, date) == newDate(y, date.month, date.date)

\* vacationDates.map(date => ({ ...date, start: ..., end: ... }))
RECURSIVE updateDates(_, _)
updateDates(y, ranges) ==
  IF ranges = << >> THEN << >>
  ELSE <<[start |-> inYear(y, Head(ranges).start),
          end |-> inYear(y, Head(ranges).end)]>> \o updateDates(y, Tail(ranges))

\* The form's handleSubmit: the data it hands to onSubmit.
handleSubmit(data) ==
  [data EXCEPT !.vacationDates = updateDates(data.year, data.vacationDates)]

\* MainApp.handleSubmit: the search parameters it navigates to '/results'
\* with.
navigateSearch(data) ==
  [country |-> data.country, subdivision |-> data.subdivision,
   year |-> data.year, vacationDates |-> data.vacationDates]

\* The form after construction and the synchronous part of its first
\* effect: the lookup for the default country is in flight.
FormInit ==
  /\ currentYear \in Years
  /\ year = currentYear
  /\ LoaderIdle
  /\ pc = "form"
  /\ ParserIdle
  /\ FetchIdle
  /\ form = [FormDefaults(currentYear) EXCEPT !.subdivision = ""]
  /\ rawVacationDatesInputValue = << >>
  /\ rawSickDatesInputValue = << >>
  /\ errors = {}
  /\ submitted = << >>
  /\ subdivisions = ""
  /\ isLoading = TRUE
  /\ lookups = <<"DE">>
  /\ addClicks = 0

resultsVars == <<year, loaderVars, parserVars, fetchVars>>

\* The country is selected, and the effect on selectedCountry runs up to
\* its await: the lookup for the country starts.
SelectCountry ==
  /\ pc = "form"
  /\ \E country \in Countries :
       /\ country # form.country
       /\ Len(lookups) < MaxLookups
       /\ form' = [form EXCEPT !.country = country, !.subdivision = ""]
       /\ lookups' = Append(lookups, country)
  /\ errors' = errors \ {"subdivision"}
  /\ isLoading' = TRUE
  /\ UNCHANGED <<resultsVars, pc, rawVacationDatesInputValue,
                 rawSickDatesInputValue, submitted, subdivisions, addClicks>>

\* A lookup in flight resolves: the rest of the effect's try block and its
\* finally block run, with the country the effect was started for.
ResolveLookup ==
  /\ pc = "form"
  /\ \E k \in 1..Len(lookups) :
       /\ subdivisions' = lookups[k]
       /\ form' = IF lookups[k] = "DE" THEN [form EXCEPT !.subdivision = "DE-BY"]
                  ELSE form
       /\ lookups' = removeAt(lookups, k)
  /\ isLoading' = FALSE
  /\ UNCHANGED <<resultsVars, pc, rawVacationDatesInputValue,
                 rawSickDatesInputValue, errors, submitted, addClicks>>

\* A lookup in flight rejects: the effect's catch and finally blocks run.
RejectLookup ==
  /\ pc = "form"
  /\ \E k \in 1..Len(lookups) : lookups' = removeAt(lookups, k)
  /\ errors' = errors \cup {"subdivision"}
  /\ subdivisions' = ""
  /\ isLoading' = FALSE
  /\ UNCHANGED <<resultsVars, pc, form, rawVacationDatesInputValue,
                 rawSickDatesInputValue, submitted, addClicks>>

\* A subdivision of the list shown is selected; the field is disabled
\* while loading.
SelectSubdivision ==
  /\ pc = "form"
  /\ ~isLoading
  /\ \E code \in codesOf(subdivisions) :
       /\ code # form.subdivision
       /\ form' = [form EXCEPT !.subdivision = code]
  /\ UNCHANGED <<resultsVars, pc, rawVacationDatesInputValue,
                 rawSickDatesInputValue, errors, submitted, subdivisions,
                 isLoading, lookups, addClicks>>

\* A year of the list (the ten years up to the clock's) is selected.
SelectYear ==
  /\ pc = "form"
  /\ \E y \in Years :
       /\ y <= currentYear /\ y > currentYear - 10
       /\ y # form.year
       /\ form' = [form EXCEPT !.year = y]
  /\ UNCHANGED <<resultsVars, pc, rawVacationDatesInputValue,
                 rawSickDatesInputValue, errors, submitted, subdivisions,
                 isLoading, lookups, addClicks>>

\* One of the three checkboxes is clicked.
ToggleFlag ==
  /\ pc = "form"
  /\ \E flag \in {"offOnChristmasEve", "offOnNewYearsEve", "protestantCommunity"} :
       form' = [form EXCEPT ![flag] = IF @ = true THEN false ELSE true]
  /\ UNCHANGED <<resultsVars, pc, rawVacationDatesInputValue,
                 rawSickDatesInputValue, errors, submitted, subdivisions,
                 isLoading, lookups, addClicks>>

TypeVacation ==
  /\ pc = "form"
  /\ \E text \in FormInputs :
       /\ text # rawVacationDatesInputValue
       /\ rawVacationDatesInputValue' = text
  /\ UNCHANGED <<resultsVars, pc, form, rawSickDatesInputValue, errors,
                 submitted, subdivisions, isLoading, lookups, addClicks>>

TypeSick ==
  /\ pc = "form"
  /\ \E text \in FormInputs :
       /\ text # rawSickDatesInputValue
       /\ rawSickDatesInputValue' = text
  /\ UNCHANGED <<resultsVars, pc, form, rawVacationDatesInputValue, errors,
                 submitted, subdivisions, isLoading, lookups, addClicks>>

\* The Add button of the vacation input is clicked.
AddVacation ==
  /\ pc = "form"
  /\ \E after \in {handleAddVacationDate(form, rawVacationDatesInputValue, errors)} :
         /\ Len(after.form.vacationDates) <= MaxRanges
         /\ form' = after.form
         /\ rawVacationDatesInputValue' = after.raw
         /\ errors' = after.errors
  /\ addClicks' = (addClicks + 1) % 2
  /\ UNCHANGED <<resultsVars, pc, rawSickDatesInputValue, submitted,
                 subdivisions, isLoading, lookups>>

\* The Add button of the sick input is clicked.
AddSick ==
  /\ pc = "form"
  /\ \E after \in {handleAddSickDate(form, rawSickDatesInputValue, errors)} :
         /\ Len(after.form.sickDates) <= MaxRanges
         /\ form' = after.form
         /\ rawSickDatesInputValue' = after.raw
         /\ errors' = after.errors
  /\ addClicks' = (addClicks + 1) % 2
  /\ UNCHANGED <<resultsVars, pc, rawVacationDatesInputValue, submitted,
                 subdivisions, isLoading, lookups>>

\* handleRemoveVacationDate(index)
RemoveVacation ==
  /\ pc = "form"
  /\ \E k \in 1..Len(form.vacationDates) :
       form' = [form EXCEPT !.vacationDates = removeAt(@, k)]
  /\ UNCHANGED <<resultsVars, pc, rawVacationDatesInputValue,
                 rawSickDatesInputValue, errors, submitted, subdivisions,
                 isLoading, lookups, addClicks>>

\* handleRemoveSickDate(index)
RemoveSick ==
  /\ pc = "form"
  /\ \E k \in 1..Len(form.sickDates) :
       form' = [form EXCEPT !.sickDates = removeAt(@, k)]
  /\ UNCHANGED <<resultsVars, pc, rawVacationDatesInputValue,
                 rawSickDatesInputValue, errors, submitted, subdivisions,
                 isLoading, lookups, addClicks>>

\* The form is submitted: the form's handleSubmit hands its data to
\* MainApp.handleSubmit, which navigates to '/results'; the search
\* parameters, validated by BaseFormSchema, are the loader's deps.
Submit ==
  /\ pc = "form"
  /\ form.subdivision # undefined
  /\ \E data \in {handleSubmit(form)}, search \in {navigateSearch(handleSubmit(form))} :
         /\ submitted' = <<data>>
         /\ year' = search.year
         /\ subdivision' = search.subdivision
         /\ hasVacationDates' = TRUE
         /\ vacationDates' = search.vacationDates
  /\ sickDates' = << >>
  /\ protestantCommunity' = undefined
  /\ offOnChristmasEve' = undefined
  /\ offOnNewYearsEve' = undefined
  /\ pc' = "submitted"
  /\ UNCHANGED <<fetched, currentYear, returned, holidays, days, daysPerMonth,
                 workdaysPerMonth, parserVars, fetchVars, form,
                 rawVacationDatesInputValue, rawSickDatesInputValue, errors,
                 subdivisions, isLoading, lookups, addClicks>>

FormNext ==
  \/ ResolveLookup \/ SelectSubdivision \/ SelectYear \/ ToggleFlag
  \/ TypeVacation \/ TypeSick \/ AddVacation \/ AddSick
  \/ RemoveVacation \/ RemoveSick \/ Submit

FormSpec == FormInit /\ [][FormNext]_vars

\* The country and subdivision fields alone.
CountryNext ==
  SelectCountry \/ ResolveLookup \/ RejectLookup \/ SelectSubdivision

CountrySpec == FormInit /\ [][CountryNext]_vars


(***************************************************************************)
(* Properties.                                                             *)
(***************************************************************************)
\* The loader has returned the per-day array and the monthly summaries.
Computed == pc = "loaded" /\ "days" \in returned

SeqRange(q) == {q[k] : k \in 1..Len(q)}

\* Calendar order of two dates.
dateLE(a, b) ==
  \/ a.year < b.year
  \/ a.year = b.year /\ a.month < b.month
  \/ a.year = b.year /\ a.month = b.month /\ a.date <= b.date

inRange(d, r) == dateLE(r.start, d) /\ dateLE(d, r.end)

inSomeRange(d, ranges) == \E r \in SeqRange(ranges) : inRange(d, r)

isHolidayDate(d) == \E h \in SeqRange(holidays) : h.date = d

\* The days of the target year, as <<month index, day of month>>.
DaysOfYear(y) ==
  {md \in (0..11) \X (1..31) : md[2] <= getDaysInMonth(y, md[1])}

dateOf(y, md) == [year |-> y, month |-> md[1], date |-> md[2]]

\* The position in the per-day array of a day of the target year.
position(y, md) == daysBeforeMonth(y, md[1]) + md[2]

\* Every holiday, vacation range and sick range is dated in the target year.
InputsInYear ==
  /\ \A h \in SeqRange(holidays) : h.date.year = year
  /\ \A r \in SeqRange(vacationDates) \cup SeqRange(sickDates) :
       r.start.year = year /\ r.end.year = year


isWeekendDate(d) == isWeekend(d.year, d.month, d.date)

\* The status the priority rule gives a day of the target year.
expectedStatus(d) ==
  IF isWeekendDate(d) THEN WEEKEND
  ELSE IF isHolidayDate(d) THEN HOLIDAY
  ELSE IF inSomeRange(d, sickDates) THEN SICK
  ELSE IF inSomeRange(d, vacationDates) THEN VACATION
  ELSE WORKDAY

\* C1: when every holiday, vacation range and sick range is dated in the
\* target year, each day of the year is Weekend if it is a Saturday or
\* Sunday, otherwise Holiday if a holiday is dated on it, otherwise Sick if
\* it lies in a sick range, otherwise Vacation if it lies in a vacation
\* range, otherwise Workday.
C1_StatusByPriority ==
  Computed /\ InputsInYear =>
    \A m \in 0..11 :
      LET before == daysBeforeMonth(year, m)
      IN  \A d \in 1..getDaysInMonth(year, m) :
            /\ before + d <= Len(days)
            /\ days[before + d] = expectedStatus(dateOf(year, <<m, d>>))

\* C1 witness: all inputs in the target year, a day in both a vacation and
\* a sick range, a holiday on a leave day, and all five statuses present.
C1_Witness ==
  /\ Computed /\ InputsInYear
  /\ SeqRange(days) = WorkDayType
  /\ \E md \in DaysOfYear(year) :
       /\ inSomeRange(dateOf(year, md), vacationDates)
       /\ inSomeRange(dateOf(year, md), sickDates)
       /\ days[position(year, md)] = SICK
  /\ \E h \in SeqRange(holidays) : inSomeRange(h.date, vacationDates)

\* The holidays of the target year that fall on a Saturday or Sunday.
weekendHolidays ==
  {h \in SeqRange(holidays) : h.date.year = year /\ isWeekendDate(h.date)}

positionOf(d) == position(d.year, <<d.month, d.date>>)

leaveHolidays ==
  {h \in SeqRange(holidays) :
     /\ h.date.year = year
     /\ ~isWeekendDate(h.date)
     /\ inSomeRange(h.date, vacationDates) \/ inSomeRange(h.date, sickDates)}

\* C3 as claimed: a day that lies in a vacation (or sick) range and is also
\* a public holiday is classified Vacation (or Sick), not Holiday.
C3_LeaveOnHolidayIsLeave ==
  Computed => \A h \in leaveHolidays : days[positionOf(h.date)] \in {VACATION, SICK}

\* C3 amended: a weekday that lies in a vacation or sick range and is also a
\* public holiday is classified Holiday.
C3_LeaveOnHolidayIsHoliday ==
  Computed => \A h \in leaveHolidays : days[positionOf(h.date)] = HOLIDAY

\* C3 witness: a weekday holiday inside a vacation range and one inside a
\* sick range.
C3_Witness ==
  /\ Computed
  /\ \E h \in leaveHolidays : inSomeRange(h.date, vacationDates)
  /\ \E h \in leaveHolidays : inSomeRange(h.date, sickDates)

\* C4: the per-day array has 365 entries, or 366 if the target year is a
\* leap year, whatever the holidays and ranges are.
C4_LengthIsDaysOfYear ==
  Computed => Len(days) = IF isLeapYear(year) THEN 366 ELSE 365

outOfYear(r) == r.start.year # year \/ r.end.year # year

\* C5: when a vacation or sick range starts or ends outside the target year
\* the computation fails and produces no per-day array.
C5_OutOfYearRangeFails ==
  pc = "loaded"
    /\ (\E r \in SeqRange(vacationDates) \cup SeqRange(sickDates) : outOfYear(r))
    => "days" \notin returned

\* C6: the slice used for month m is exactly the days of month m of the
\* target year.
C6_MonthSliceIsMonth ==
  Computed =>
    \A m \in 1..12 :
      daysPerMonth[m].monthDays =
        SubSeq(days, daysBeforeMonth(year, m - 1) + 1,
               daysBeforeMonth(year, m - 1) + getDaysInMonth(year, m - 1))

\* C7: per month, vacationDays + sickDays + workDays + the Holiday days and
\* the Weekend days of the month's slice equal the reported daysInMonth.
C7_MonthCountsSum ==
  Computed =>
    \A m \in 1..12 :
      workdaysPerMonth[m].vacationDays + workdaysPerMonth[m].sickDays
        + workdaysPerMonth[m].workDays
        + countDays(daysPerMonth[m].monthDays, HOLIDAY)
        + countDays(daysPerMonth[m].monthDays, WEEKEND)
      = workdaysPerMonth[m].daysInMonth

\* C8: every run that returns outputs the per-day sequence and exactly 12
\* monthly summaries, also when no vacation ranges were declared.
C8_AlwaysDaysAndTwelveMonths ==
  pc = "loaded" =>
    /\ {"days", "workdaysPerMonth"} \subseteq returned
    /\ Len(days) > 0
    /\ Len(workdaysPerMonth) = 12


(***************************************************************************)
(* The range scan, stated over the positions 1..Len(sl) of a month's slice *)
(* sl (position k is the k-th day the scan visits).                        *)
(***************************************************************************)
competing(type) == IF type = VACATION THEN SICK ELSE VACATION

\* The positions before k that hold a status the scan reacts to.
trackedBefore(sl, k) ==
  {j \in 1..(k - 1) : sl[j] \in {VACATION, SICK, WORKDAY}}

maxOf(S) == CHOOSE x \in S : \A y \in S : y <= x
minOf(S) == CHOOSE x \in S : \A y \in S : x <= y

\* Position k is the first day of a run of type days: a type day with no
\* type range open, that is, the nearest earlier Vacation, Sick or Workday
\* position (if any) does not hold type.
opensAt(sl, k, type) ==
  /\ sl[k] = type
  /\ LET before == trackedBefore(sl, k)
     IN  before = {} \/ sl[maxOf(before)] # type

opens(sl, type) == {k \in 1..Len(sl) : opensAt(sl, k, type)}

\* The later positions that close a type range: a Workday or the competing
\* status.
closers(sl, s, type) ==
  {p \in (s + 1)..Len(sl) : sl[p] \in {WORKDAY, competing(type)}}

\* The reported range of the run opened at s: the n-th range of the list,
\* where s is the n-th opening position.
reportedFor(ranges, sl, s, type) ==
  ranges[Cardinality({t \in opens(sl, type) : t <= s})]

reportedRanges(m, type) ==
  IF type = VACATION THEN workdaysPerMonth[m].vacationRanges
  ELSE workdaysPerMonth[m].sickRanges

\* 'D.M' of day D (1-based) of month M (1-based).
DM(D, M) == ToString(D) \o "." \o ToString(M)

\* A month in which days 10-14 are Vacation, day 15 is a Workday, days 16-18
\* are Sick, and the other days are Workdays.
exampleMonth ==
  [daysInMonth |-> 31,
   monthDays |-> [k \in 1..31 |->
                    IF k \in 10..14 THEN VACATION
                    ELSE IF k = 15 THEN WORKDAY
                    ELSE IF k \in 16..18 THEN SICK
                    ELSE WORKDAY]]

\* C9: in the scan of a month's slice, there is one reported vacation range
\* per run start s, in order; it starts at day s, and when a later Workday
\* or Sick day exists in the slice, it ends at day p - 1 for the first such
\* day p, whatever Weekend and Holiday days lie between; the same for sick
\* ranges with Vacation as the competing status. In particular the example
\* month yields vacationRanges [10.M-14.M] and sickRanges [16.M-18.M].
C9_RangeClosedByWorkdayOrCompeting ==
  /\ Computed =>
       \A m \in 1..12, type \in {VACATION, SICK} :
         LET sl == daysPerMonth[m].monthDays
             ranges == reportedRanges(m, type)
         IN  /\ Len(ranges) = Cardinality(opens(sl, type))
             /\ \A s \in opens(sl, type) :
                  /\ reportedFor(ranges, sl, s, type).start = DM(s, m)
                  /\ closers(sl, s, type) # {} =>
                       reportedFor(ranges, sl, s, type).end
                         = DM(minOf(closers(sl, s, type)) - 1, m)
  /\ \A M \in {3, 12} :
       /\ monthSummary(exampleMonth, M - 1).vacationRanges
            = <<[start |-> DM(10, M), end |-> DM(14, M)]>>
       /\ monthSummary(exampleMonth, M - 1).sickRanges
            = <<[start |-> DM(16, M), end |-> DM(18, M)]>>

\* C9 witness: February 2024 computed in 2024 with 27 February a vacation
\* day, 28 February a workday and 29 February a sick day; and a January in
\* which a vacation range begun on a Friday is closed by the Monday after
\* the weekend.
C9_Witness ==
  /\ Computed
  /\ \/ /\ year = 2024 /\ currentYear = 2024
        /\ workdaysPerMonth[2].vacationRanges = <<[start |-> "27.2", end |-> "27.2"]>>
        /\ workdaysPerMonth[2].sickRanges = <<[start |-> "29.2", end |-> "29.2"]>>
        /\ daysPerMonth[2].monthDays[28] = WORKDAY
     \/ /\ year = 2024 /\ currentYear = 2024
        /\ workdaysPerMonth[1].vacationRanges = <<[start |-> "5.1", end |-> "7.1"]>>
        /\ daysPerMonth[1].monthDays[6] = WEEKEND
        /\ daysPerMonth[1].monthDays[8] = WORKDAY

\* C10: a vacation or sick range still open when the scan reaches the end of
\* a month is reported with its end at the last day of that month of the
\* target year.
C10_OpenRangeEndsAtMonthEnd ==
  Computed =>
    \A m \in 1..12, type \in {VACATION, SICK} :
      LET sl == daysPerMonth[m].monthDays
          ranges == reportedRanges(m, type)
      IN  \A s \in opens(sl, type) :
            closers(sl, s, type) = {} =>
              /\ Len(ranges) > 0
              /\ ranges[Len(ranges)].end = DM(getDaysInMonth(year, m - 1), m)


(***************************************************************************)
(* Properties of the parser.                                               *)
(***************************************************************************)
\* The typed string has been parsed.
ParsedTyped == pc = "parsed" /\ typed.entries # << >>

\* A month (1..12) and a day that exist in year y.
validDate(y, month, day) ==
  month \in 1..12 /\ day \in 1..getDaysInMonth(y, month - 1)

\* The date a token stands for, as <<date>>: day.month first, month.day
\* second; << >> if it stands for none.
tokenDate(t, y) ==
  IF t = << >> THEN << >>
  ELSE IF validDate(y, t[2], t[1]) THEN <<newDate(y, t[2] - 1, t[1])>>
  ELSE IF validDate(y, t[1], t[2]) THEN <<newDate(y, t[1] - 1, t[2])>>
  ELSE << >>

\* The range a well-formed entry stands for, as <<range>>: a single date,
\* or two dates with the first not after the second; << >> otherwise.
entryRange(e, y) ==
  IF Len(e) = 1 /\ tokenDate(e[1], y) # << >>
  THEN <<[start |-> tokenDate(e[1], y)[1], end |-> tokenDate(e[1], y)[1]]>>
  ELSE IF Len(e) = 2 /\ tokenDate(e[1], y) # << >> /\ tokenDate(e[2], y) # << >>
          /\ dateLE(tokenDate(e[1], y)[1], tokenDate(e[2], y)[1])
       THEN <<[start |-> tokenDate(e[1], y)[1], end |-> tokenDate(e[2], y)[1]]>>
       ELSE << >>

\* The entries before the k-th are all well-formed.
validBefore(k) == \A j \in 1..(k - 1) : entryRange(typed.entries[j], year) # << >>

\* The k-th typed entry as it is written, without blanks around it.
writtenEntry(k) == trim(renderEntry(typed.entries[k], typed.spaced))

\* C11: parsing an input that is empty or only whitespace fails with
\* EMPTY_DATE_STRING, in every year, and returns no ranges.
C11_BlankInputFails ==
  (pc = "parsed" /\ \A k \in 1..Len(input) : input[k] = " ")
    => (result.threw /\ result.code = EMPTY_DATE_STRING /\ result.value = << >>)

C11_Witness ==
  pc = "parsed" /\ input = <<" ", " ">> /\ result.threw

\* C12: if an entry between the semicolons of a non-blank input is empty
\* after trimming and the entries before it are well-formed, parsing fails
\* with EMPTY_RANGE_AFTER_SEMICOLON.
C12_EmptyEntryFails ==
  \A k \in 1..Len(typed.entries) :
    (ParsedTyped /\ Len(typed.entries) >= 2 /\ typed.entries[k] = << >>
       /\ validBefore(k))
      => (result.threw /\ result.code = EMPTY_RANGE_AFTER_SEMICOLON)

C12_Witness ==
  /\ ParsedTyped
  /\ input = <<"2", "4", ".", "0", "3", ";">>
  /\ result.code = EMPTY_RANGE_AFTER_SEMICOLON

\* C13: an entry with a '-' whose start side or end side is empty after
\* trimming (and whose earlier entries are well-formed) makes parsing fail
\* with RANGE_MISSING_DATE, carrying the whole trimmed entry.
C13_MissingSideFails ==
  \A k \in 1..Len(typed.entries) :
    (ParsedTyped /\ Len(typed.entries[k]) = 2
       /\ (typed.entries[k][1] = << >> \/ typed.entries[k][2] = << >>)
       /\ validBefore(k))
      => result = Thrown(RANGE_MISSING_DATE, <<writtenEntry(k)>>)

C13_Witness ==
  /\ ParsedTyped
  /\ typed.spaced
  /\ typed.entries = <<<<<<24, 3>>>>, <<<< >>, <<25, 3>>>>>>
  /\ result.fieldValue = <<<<"-", " ", "2", "5", ".", "0", "3">>>>


\* The first token of entry e that stands for no date.
firstInvalidToken(e, y) ==
  e[CHOOSE i \in 1..Len(e) :
      tokenDate(e[i], y) = << >> /\ \A j \in 1..(i - 1) : tokenDate(e[j], y) # << >>]

\* C14: a date token that is a valid date of the year neither as dd.MM nor
\* as MM.dd makes parsing fail with DATE_FORMAT_INVALID carrying that token
\* alone; in a range it is the first such side, start before end.
C14_InvalidTokenFails ==
  \A k \in 1..Len(typed.entries) :
    LET e == typed.entries[k]
    IN  (ParsedTyped /\ Len(e) \in {1, 2} /\ validBefore(k)
           /\ (\A i \in 1..Len(e) : e[i] # << >>)
           /\ (\E i \in 1..Len(e) : tokenDate(e[i], year) = << >>))
          => result = Thrown(DATE_FORMAT_INVALID,
                             <<renderToken(firstInvalidToken(e, year))>>)

C14_Witness ==
  /\ ParsedTyped
  /\ typed.spaced
  /\ typed.entries = <<<<<<24, 3>>, <<32, 3>>>>>>
  /\ result = Thrown(DATE_FORMAT_INVALID, <<<<"3", "2", ".", "0", "3">>>>)

\* The k-th typed entry is a range of two dates of the year.
twoDates(k) ==
  /\ Len(typed.entries[k]) = 2
  /\ tokenDate(typed.entries[k][1], year) # << >>
  /\ tokenDate(typed.entries[k][2], year) # << >>

\* C15: a range entry of two valid dates whose end is before its start makes
\* parsing fail with RANGE_END_BEFORE_START carrying the whole entry; a range
\* whose end equals its start is accepted; every range returned has
\* start <= end.
C15_EndBeforeStartFails ==
  /\ \A k \in 1..Len(typed.entries) :
       (ParsedTyped /\ twoDates(k) /\ validBefore(k)
          /\ ~dateLE(tokenDate(typed.entries[k][1], year)[1],
                     tokenDate(typed.entries[k][2], year)[1]))
         => result = Thrown(RANGE_END_BEFORE_START, <<writtenEntry(k)>>)
  /\ \A k \in 1..Len(typed.entries) :
       (ParsedTyped /\ twoDates(k) /\ validBefore(Len(typed.entries) + 1)
          /\ typed.entries[k][1] = typed.entries[k][2])
         => (~result.threw
             /\ result.value[k] = [start |-> tokenDate(typed.entries[k][1], year)[1],
                                   end |-> tokenDate(typed.entries[k][1], year)[1]])
  /\ pc = "parsed"
       => \A k \in 1..Len(result.value) :
            dateLE(result.value[k].start, result.value[k].end)

C15_Witness ==
  /\ ParsedTyped
  /\ input = <<"2", "5", ".", "0", "3", "-", "2", "4", ".", "0", "3">>
  /\ result.code = RANGE_END_BEFORE_START

\* C16: for an input whose entries are all well-formed, parsing returns one
\* range per entry in the order of the entries: start = end for a single
\* date, the two dates for a range; blanks around ';' and '-' change
\* nothing, and equal or overlapping entries are kept as they are.
C16_OneRangePerEntry ==
  (ParsedTyped /\ validBefore(Len(typed.entries) + 1))
    => /\ ~result.threw
       /\ Len(result.value) = Len(typed.entries)
       /\ \A k \in 1..Len(typed.entries) :
            result.value[k] = entryRange(typed.entries[k], year)[1]

C16_Witness ==
  /\ ParsedTyped
  /\ typed.spaced
  /\ typed.entries = <<<<<<24, 3>>, <<25, 3>>>>, <<<<24, 3>>>>>>
  /\ Len(result.value) = 2

\* C17: an entry that is neither a single date nor two dates joined by one
\* '-', such as three dates joined by two hyphens, makes parsing fail.
C17_MalformedEntryFails ==
  \A k \in 1..Len(typed.entries) :
    (ParsedTyped /\ Len(typed.entries[k]) = 3) => result.threw

\* The range that was formatted has both its dates in the selected year.
formattedInYear ==
  /\ formatted # << >>
  /\ formatted[1].start.year = year
  /\ formatted[1].end.year = year

\* C18: a range with start <= end in the selected year, formatted and then
\* parsed for that year, gives exactly that range, and formatting the parsed
\* range gives the same string again.
C18_RoundTrip ==
  (pc = "parsed" /\ formattedInYear)
    => /\ result = Returned(formatted)
       /\ formatDateRange(result.value[1]) = input

C18_Witness ==
  /\ pc = "parsed"
  /\ formattedInYear
  /\ formatted[1].start.month # formatted[1].end.month
  /\ result = Returned(formatted)


(***************************************************************************)
(* Properties of the holiday adjustment.                                   *)
(***************************************************************************)
\* The holiday service's holidays that the adjustment is to keep.
keptHolidays ==
  SelectSeq(fetched,
            LAMBDA h : ~(subdivision = "DE-BY" /\ protestantCommunity = true
                         /\ h.name = "Mariä Himmelfahrt"))

\* C19: the adjustment removes a holiday if and only if the subdivision is
\* 'DE-BY', the protestant-community flag is true and the holiday's name is
\* 'Mariä Himmelfahrt' (every holiday of that name goes); otherwise every
\* holiday of the source is kept, in its order.
C19_RemovesOnlyAssumptionDay ==
  pc = "loaded"
    => /\ Len(holidays) >= Len(keptHolidays)
       /\ SubSeq(holidays, 1, Len(keptHolidays)) = keptHolidays
       /\ \A k \in (Len(keptHolidays) + 1)..Len(holidays) :
            holidays[k].name \in {"Christmas Eve", "New Years Eve"}

C19_Witness ==
  /\ pc = "loaded"
  /\ Len(fetched) = 2
  /\ fetched[1].name = "Mariä Himmelfahrt"
  /\ fetched[2].name = "Assumption Day"
  /\ Len(holidays) = 1
  /\ holidays[1].name = "Assumption Day"

\* C20: after the removal the adjustment appends "Christmas Eve", dated
\* 24 December of the target year, if and only if offOnChristmasEve is set,
\* and then "New Year's Eve", dated 31 December, if and only if
\* offOnNewYearsEve is set; a holiday already on that date stays.
C20_EvesAppended ==
  pc = "loaded"
    => holidays =
         keptHolidays
         \o (IF offOnChristmasEve = true
             THEN <<[name |-> "Christmas Eve", date |-> newDate(year, 11, 24)]>>
             ELSE << >>)
         \o (IF offOnNewYearsEve = true
             THEN <<[name |-> "New Year's Eve", date |-> newDate(year, 11, 31)]>>
             ELSE << >>)


(***************************************************************************)
(* Further properties of the classification and the aggregation.           *)
(***************************************************************************)
\* C22: classification and aggregation are functions of year, holidays,
\* ranges and flags alone: the per-day array and the monthly summaries are
\* the same whatever the year of the clock when the computation runs.
C22_IndependentOfClock ==
  Computed
    => \A clock \in Years :
         /\ days = classify(year, holidays, vacationDates, sickDates)
         /\ workdaysPerMonth = workdaysPerMonthOf(daysPerMonthOf(days, clock))

\* The day of month D that the string "D.M" names.
dayOf(str, M) == CHOOSE D \in 0..32 : DM(D, M) = str

\* The days of month M that the reported ranges cover.
coveredDays(ranges, M) ==
  {d \in 1..31 : \E r \in SeqRange(ranges) : dayOf(r.start, M) <= d /\ d <= dayOf(r.end, M)}

\* The reported ranges of a type in month M start on a day of that type and
\* end on a day whose status is in the set ends; they cover at least the
\* counted days of the type, and exactly those when they cover no other day.
rangesWithin(M, ranges, counted, type, ends) ==
  LET sl == daysPerMonth[M].monthDays
  IN  /\ \A r \in SeqRange(ranges) :
           /\ sl[dayOf(r.start, M)] = type
           /\ sl[dayOf(r.end, M)] \in ends
      /\ Cardinality(coveredDays(ranges, M)) >= counted
      /\ (\A d \in coveredDays(ranges, M) : sl[d] = type)
           => Cardinality(coveredDays(ranges, M)) = counted

\* C27 as claimed: every reported vacation range starts and ends on a
\* Vacation day, every reported sick range on a Sick day; the days covered
\* are at least the month's vacationDays (sickDays).
C27_RangesEndOnLeaveDays ==
  Computed
    => \A M \in 1..12 :
         /\ rangesWithin(M, workdaysPerMonth[M].vacationRanges,
                         workdaysPerMonth[M].vacationDays, VACATION, {VACATION})
         /\ rangesWithin(M, workdaysPerMonth[M].sickRanges,
                         workdaysPerMonth[M].sickDays, SICK, {SICK})

\* C27 as amended: every reported range starts on a day of its type and
\* ends on a day of its type or on a Weekend or Holiday day that follows the
\* run (statuses read in the month's slice of the per-day array); the days
\* covered are at least the month's vacationDays (sickDays), and exactly as
\* many when every covered day has the range's type.
C27_RangesStartOnLeaveDays ==
  Computed
    => \A M \in 1..12 :
         /\ rangesWithin(M, workdaysPerMonth[M].vacationRanges,
                         workdaysPerMonth[M].vacationDays, VACATION,
                         {VACATION, WEEKEND, HOLIDAY})
         /\ rangesWithin(M, workdaysPerMonth[M].sickRanges,
                         workdaysPerMonth[M].sickDays, SICK,
                         {SICK, WEEKEND, HOLIDAY})

\* A vacation on Friday 5 January 2024 alone is reported through Sunday.
C27_Witness ==
  /\ Computed
  /\ year = 2024
  /\ currentYear = 2024
  /\ workdaysPerMonth[1].vacationDays = 1
  /\ workdaysPerMonth[1].vacationRanges = <<[start |-> "5.1", end |-> "7.1"]>>


\* The entries of a list without those equal to an earlier entry.
RECURSIVE listedOnce(_)
listedOnce(list) ==
  IF list = << >> THEN << >>
  ELSE LET front == listedOnce(SubSeq(list, 1, Len(list) - 1))
       IN  IF list[Len(list)] \in SeqRange(front) THEN front
           ELSE Append(front, list[Len(list)])

\* The holidays without those dated like an earlier holiday.
RECURSIVE oncePerDate(_)
oncePerDate(hs) ==
  IF hs = << >> THEN << >>
  ELSE LET front == oncePerDate(SubSeq(hs, 1, Len(hs) - 1))
       IN  IF \E h \in SeqRange(front) : h.date = hs[Len(hs)].date THEN front
           ELSE Append(front, hs[Len(hs)])

\* C21: classifying with a vacation or sick range listed twice, or with a
\* holiday listed twice (a holiday of the service on 24 December and the
\* synthetic Christmas Eve), gives the per-day array and the monthly
\* summaries of classifying with it listed once.
C21_ListedTwiceAsOnce ==
  Computed
    => /\ days = classify(year, oncePerDate(holidays), listedOnce(vacationDates),
                          listedOnce(sickDates))
       /\ workdaysPerMonth =
            workdaysPerMonthOf(daysPerMonthOf(
              classify(year, oncePerDate(holidays), listedOnce(vacationDates),
                       listedOnce(sickDates)), currentYear))

C21_Witness ==
  /\ Computed
  /\ Len(vacationDates) = 2
  /\ vacationDates[1] = vacationDates[2]
  /\ Len(holidays) = 2
  /\ holidays[1].date = holidays[2].date
  /\ days[getDayIndex(holidays[1].date) + 1] = HOLIDAY
  /\ days[getDayIndex(vacationDates[1].end) + 1] = VACATION


(***************************************************************************)
(* Further properties of the parser.                                       *)
(***************************************************************************)
\* The range of the single day `date` of month `month` (1..12) of year y.
singleDay(y, month, date) ==
  [start |-> newDate(y, month - 1, date), end |-> newDate(y, month - 1, date)]

\* C25: a date is read as dd.MM first and as MM.dd second, and the first
\* reading that is a date of the year wins: a token a.b with a and b in
\* 1..12 is day a of month b, and the MM.dd reading is taken only when the
\* dd.MM reading is no date ('05.13' is 13 May).
C25_DayFirstThenMonthFirst ==
  \A t \in SingleTokens :
    (ParsedTyped /\ typed.entries = <<<<t>>>>)
      => /\ (t[1] \in 1..12 /\ t[2] \in 1..12)
              => result = Returned(<<singleDay(year, t[2], t[1])>>)
         /\ validDate(year, t[2], t[1])
              => result = Returned(<<singleDay(year, t[2], t[1])>>)
         /\ (~validDate(year, t[2], t[1]) /\ validDate(year, t[1], t[2]))
              => result = Returned(<<singleDay(year, t[1], t[2])>>)

C25_Witness ==
  /\ ParsedTyped
  /\ typed.entries = <<<<<<5, 13>>>>>>
  /\ result = Returned(<<singleDay(year, 5, 13)>>)

\* C26: parseDateRangeString and parseDateOrRangeString agree on every
\* input and year: the same ranges, or the same error code and carried
\* value.
C26_ParsersAgree ==
  pc = "parsed" => result = parseDateRangeString(input, year)

C26_Witness ==
  /\ ParsedTyped
  /\ typed.entries = <<<<<<24, 3>>>>, <<<<25, 3>>, <<24, 3>>>>>>
  /\ result.code = RANGE_END_BEFORE_START
  /\ parseDateRangeString(input, year).code = RANGE_END_BEFORE_START


(***************************************************************************)
(* Properties of fetchHolidaysByYear.                                      *)
(***************************************************************************)
\* The message has the pieces of part next to each other, in order.
contains(message, part) ==
  \E i \in 0..(Len(message) - Len(part)) :
    SubSeq(message, i + 1, i + Len(part)) = part

\* C24: fetchHolidaysByYear returns no holiday list when the lookup fails:
\* for a response that is not ok it rejects with a message containing
\* 'Failed to fetch holidays: <statusText>', and when fetch rejects with
\* the error E it rejects with 'Error fetching holidays: <E.message>'.
C24_FailedLookupRejects ==
  pc = "fetched"
    => /\ response.kind # "ok" => (rejection # << >> /\ fetched = << >>)
       /\ response.kind = "notOk"
            => contains(rejection[1],
                        <<"Failed to fetch holidays: ", response.statusText>>)
       /\ (response.kind = "rejected" /\ response.error.isError)
            => rejection[1] = <<"Error fetching holidays: ">> \o response.error.message

C24_Witness ==
  /\ pc = "fetched"
  /\ response.kind = "notOk"
  /\ response.statusText = "Not Found"
  /\ rejection = <<<<"Error fetching holidays: ", "Failed to fetch holidays: ",
                    "Not Found", ". Details: ", "">>>>

(***************************************************************************)
(* The form.                                                               *)
(***************************************************************************)
\* What the parser makes of the text in the vacation and in the sick input.
vacationParse == parseDateRangeString(rawVacationDatesInputValue, form.year)

sickParse == parseDateRangeString(rawSickDatesInputValue, form.year)

\* The lists are as before the step, and the field has an error after it.
rejectedAt(field) ==
  /\ form'.vacationDates = form.vacationDates
  /\ form'.sickDates = form.sickDates
  /\ field \in errors'

\* C23 (as stated): when parse fails on an input it returns no range, and a
\* click on Add with such an input in the vacation (sick) field leaves the
\* vacation and sick lists as they were and sets an error on the field.
C23_FailedAddSetsError ==
  [][/\ (AddVacation /\ vacationParse.threw)
          => (vacationParse.value = << >> /\ rejectedAt("rawVacationDates"))
     /\ (AddSick /\ sickParse.threw)
          => (sickParse.value = << >> /\ rejectedAt("rawSickDates"))]_vars

\* C23 (amended): when parse fails on an input it returns no range, and a
\* click on Add with such an input, if it is not the empty text, leaves the
\* vacation and sick lists as they were and sets an error on the field; a
\* click on Add with the empty text changes nothing and sets no error.
C23_FailedAddOfTextSetsError ==
  [][/\ (AddVacation /\ vacationParse.threw)
          => /\ vacationParse.value = << >>
             /\ IF rawVacationDatesInputValue # << >>
                THEN rejectedAt("rawVacationDates")
                ELSE form' = form /\ errors' = errors
     /\ (AddSick /\ sickParse.threw)
          => /\ sickParse.value = << >>
             /\ IF rawSickDatesInputValue # << >>
                THEN rejectedAt("rawSickDates")
                ELSE form' = form /\ errors' = errors]_vars

\* Add was clicked with "24.03;32.03" in the vacation field, whose first
\* entry is valid: the field has the error and the list is still empty.
C23_Witness ==
  /\ pc = "form"
  /\ addClicks = 1
  /\ rawVacationDatesInputValue = renderInput(<<<<<<24, 3>>>>, <<<<32, 3>>>>>>, FALSE)
  /\ vacationParse.threw
  /\ "rawVacationDates" \in errors
  /\ form.vacationDates = << >>

\* The range handed on is the entered one moved to year y: the same month
\* and day, and its start not after its end.
movedTo(y, entered, handed) ==
  /\ handed.start = [year |-> y, month |-> entered.start.month, date |-> entered.start.date]
  /\ handed.end = [year |-> y, month |-> entered.end.month, date |-> entered.end.date]
  /\ getTime(handed.start) <= getTime(handed.end)

\* C29: after adding and removing ranges and changing the year, every
\* vacation range and every sick range handed to onSubmit lies in the
\* selected year, with the month and day it was entered with, and has its
\* start not after its end.
C29_SubmittedInSelectedYear ==
  pc = "submitted" =>
    LET data == submitted[1]
    IN  /\ Len(data.vacationDates) = Len(form.vacationDates)
        /\ Len(data.sickDates) = Len(form.sickDates)
        /\ \A k \in 1..Len(form.vacationDates) :
             movedTo(form.year, form.vacationDates[k], data.vacationDates[k])
        /\ \A k \in 1..Len(form.sickDates) :
             movedTo(form.year, form.sickDates[k], data.sickDates[k])

\* C30: on submit the loader of the results receives the year, the
\* subdivision, the vacation ranges (as handed to onSubmit), the sick ranges
\* and the three flags of the form.
C30_LoaderReceivesForm ==
  pc = "submitted" =>
    /\ year = form.year
    /\ subdivision = form.subdivision
    /\ vacationDates = submitted[1].vacationDates
    /\ sickDates = submitted[1].sickDates
    /\ offOnChristmasEve = form.offOnChristmasEve
    /\ offOnNewYearsEve = form.offOnNewYearsEve
    /\ protestantCommunity = form.protestantCommunity

\* C28: the loading flag is set while a lookup for the selected country is
\* in flight, 'DE-BY' is never the subdivision of a country other than DE,
\* and once no lookup is in flight the list shown is the selected country's
\* (or empty, after a failed lookup), the subdivision is one of that country
\* or none, and the loading flag is off.
C28_CurrentCountryShown ==
  /\ (\E k \in 1..Len(lookups) : lookups[k] = form.country) => isLoading
  /\ form.country # "DE" => form.subdivision # "DE-BY"
  /\ lookups = << >> =>
       /\ subdivisions \in {form.country, ""}
       /\ form.subdivision \in codesOf(form.country) \cup {""}
       /\ ~isLoading

=============================================================================
